---- MODULE Spec2Model ----
(***************************************************************************)
(* Presenter spend attribution (src/main.py): schedule tokens are rounded  *)
(* onto the hourly grid, raw spend is turned into a per-day cumulative     *)
(* index keyed one hour later, and every presenter interval is resolved    *)
(* by two lookups in that index.                                           *)
(*                                                                         *)
(* Representation.  A date is a day number, a datetime is a number of      *)
(* minutes since day 0 00:00.  A time-of-day string is a TLA+ string such  *)
(* as "20:15"; strptime and strftime are modelled on those strings.  An    *)
(* amount is kept in units of 1/Scale so that the division by the number   *)
(* of presenters is exact (floating-point rounding is abstracted away);    *)
(* NaN is the missing value of a left join.                                *)
(***************************************************************************)
EXTENDS Integers, Sequences, FiniteSets, TLC

VARIABLES
    pc,             \* position in main / in the function under study
    config,         \* time_processing.method and date_range of the platform
    schedule_file,  \* rows of the schedule sheet
    expense_file,   \* rows of the spend sheet
    output_file,    \* what is stored at output_file.filename
    locked,         \* the output file is held open by another program
    new_df,         \* result of process_schedule_data
    merged_df_new,  \* result of process_expense_data
    merged_all,     \* the per-interval table inside calculate_anchor_expenses
    summary,        \* result of process_data
    err,            \* the exception main caught ("" when none)
    rnd             \* arguments and result of a round_to_nearest_hour call

vars == <<pc, config, schedule_file, expense_file, output_file, locked,
          new_df, merged_df_new, merged_all, summary, err, rnd>>

----------------------------------------------------------------------------
(* Bounds of the model. *)

MaxDay == 1         \* dates of the input files are 0..MaxDay
MaxAnchors == 2     \* names joined by '+' in one token
MaxAmount == 2      \* amount of one spend row is 0..MaxAmount

(* Program constants. *)

Hour == 60          \* minutes in timedelta(hours=1)
Day == 24 * Hour    \* minutes in timedelta(days=1)

----------------------------------------------------------------------------
(* Time-of-day strings. *)

Pad2(n) == IF n < 10 THEN "0" \o ToString(n) ELSE ToString(n)

\* time.strftime('%H:%M') of a datetime given in minutes
strftime_HM(t) == Pad2((t \div Hour) % 24) \o ":" \o Pad2(t % Hour)

\* every string '%H:%M' accepts, with the time it denotes: a one-digit hour
\* may be written with or without its leading zero ("9:00", "09:00")
Spellings ==
    {<<Pad2(h) \o ":" \o Pad2(m), h, m>> : h \in 0..23, m \in 0..(Hour - 1)}
    \cup {<<ToString(h) \o ":" \o Pad2(m), h, m>> : h \in 0..9, m \in 0..(Hour - 1)}

strptime_table ==
    [s \in {sp[1] : sp \in Spellings} |->
        LET sp == CHOOSE x \in Spellings : x[1] = s
        IN  sp[2] * Hour + sp[3]]

\* datetime.strptime(s, '%H:%M'): minutes since midnight, or ValueError
TimeFormatError == "ValueError: time data does not match format '%H:%M'"
UnsupportedMethod == "ValueError: unsupported time processing method"

Parses(s) == s \in DOMAIN strptime_table
strptime(s) == strptime_table[s]

----------------------------------------------------------------------------
(* round_to_nearest_hour *)

RuleNames == {"method1", "method2", "method3", "method4"}

\* method1 with the roles exchanged: the start is left alone, the end goes up
rules_method1_end_up(method, t, is_end) ==
    CASE method \in {"method1", "method4"} ->
            IF is_end /\ t % Hour > 0 THEN t + Hour ELSE t
      [] method = "method2" ->
            IF t % Hour > 0 THEN t + Hour ELSE t
      [] method = "method3" -> t

rules(method, t, is_end) ==
    CASE method = "method1" ->
            IF ~is_end /\ t % Hour > 0 THEN t + Hour ELSE t
      [] method = "method2" ->
            IF t % Hour > 0 THEN t + Hour ELSE t
      [] method = "method3" -> t
      [] method = "method4" ->
            IF is_end /\ t % Hour > 0 THEN t + Hour ELSE t

\* t.replace(minute=0, second=0)
replace_minute0(t) == t - (t % Hour)

Returned(v) == [exc |-> "", ret |-> v]
Raised(e) == [exc |-> e, ret |-> ""]

round_to_nearest_hour(time_str, method, is_end_time) ==
    IF time_str \in {"23:59", "24:00"} THEN Returned("00:00")
    ELSE IF ~Parses(time_str) THEN Raised(TimeFormatError)
    ELSE IF method \notin RuleNames THEN Raised(UnsupportedMethod)
    ELSE LET time_obj == rules(method, strptime(time_str), is_end_time)
         IN  Returned(strftime_HM(replace_minute0(time_obj)))

----------------------------------------------------------------------------
(* process_schedule_data *)

\* A row of the sheet is [Date, cells]; a cell is [is_str, matches], matches
\* being what the pattern <text>(<text>) finds in the cell's text, each match
\* [anchor, time] with anchor given as its '+'-separated parts and time as
\* the two parts around '-'.

extract_anchors_and_time_safe(cell) ==
    IF cell.is_str THEN cell.matches ELSE <<>>

\* single_anchor.strip(): the names of the model carry at most one blank
strip(name) ==
    CASE name = "A " -> "A"
      [] name = " B" -> "B"
      [] OTHER -> name

RECURSIVE Concat(_)
Concat(seqs) ==
    IF seqs = <<>> THEN <<>> ELSE Head(seqs) \o Concat(Tail(seqs))

\* the (date, anchor, time) triples in the order the three loops visit them
RowTokens(row) ==
    Concat([c \in DOMAIN row.cells |->
        LET ms == extract_anchors_and_time_safe(row.cells[c])
        IN  [k \in DOMAIN ms |->
                [date |-> row.Date, anchor |-> ms[k].anchor, time |-> ms[k].time]]])

SheetTokens(df0) == Concat([i \in DOMAIN df0 |-> RowTokens(df0[i])])

\* the cross-midnight correction of one token's rounded times
end_datetime(date, start_time_rounded, end_time_rounded) ==
    LET start_dt == date * Day + strptime(start_time_rounded)
        end_dt == date * Day + strptime(end_time_rounded)
    IN  IF end_dt < start_dt THEN end_dt + Day ELSE end_dt

\* the body of the loop over one match: the rows it appends, or the exception
TokenRows(tok, time_method) ==
    LET anchor_list == tok.anchor
        num_anchors == Len(anchor_list)
        s == round_to_nearest_hour(tok.time[1], time_method, FALSE)
        e == round_to_nearest_hour(tok.time[2], time_method, TRUE)
    IN  IF s.exc # "" THEN Raised(s.exc)
        ELSE IF e.exc # "" THEN Raised(e.exc)
        ELSE Returned([i \in 1..num_anchors |->
                [date |-> tok.date,
                 anchor |-> strip(anchor_list[i]),
                 start_time |-> tok.date * Day + strptime(s.ret),
                 end_time |-> end_datetime(tok.date, s.ret, e.ret),
                 num_anchors |-> num_anchors]])

process_schedule_data(df0, time_method) ==
    LET toks == SheetTokens(df0)
        rows == [k \in DOMAIN toks |-> TokenRows(toks[k], time_method)]
        bad == {k \in DOMAIN rows : rows[k].exc # ""}
    IN  IF bad # {}
        THEN Raised(rows[CHOOSE k \in bad : \A j \in bad : k <= j].exc)
        ELSE Returned(Concat([k \in DOMAIN rows |-> rows[k].ret]))

----------------------------------------------------------------------------
(* process_expense_data *)

SetMin(S) == CHOOSE x \in S : \A y \in S : x <= y
SetMax(S) == CHOOSE x \in S : \A y \in S : x >= y

\* .date() of a datetime
DateOf(t) == t \div Day

\* dt.strftime('%Y-%m-%d %H:00'): the hour bucket of a datetime
HourKey(t) == t - (t % Hour)

RECURSIVE SumOver(_, _)
SumOver(f, S) ==
    IF S = {} THEN 0
    ELSE LET x == CHOOSE y \in S : TRUE IN f[x] + SumOver(f, S \ {x})

\* groupby('hour')['cost'].sum(), left-merged on the full axis, fillna(0)
HourlyCost(df, key) ==
    SumOver([r \in DOMAIN df |-> df[r].amount],
            {r \in DOMAIN df : HourKey(df[r].date) = key})

\* pd.date_range(start, end, freq='h'), both ends included
hourly_time_range(start_date, end_date) ==
    [i \in 1..((end_date - start_date) * 24 + 1) |->
        start_date * Day + (i - 1) * Hour]

\* a running sum that is not restarted at midnight
RECURSIVE GroupCumsum_no_reset(_, _, _)
GroupCumsum_no_reset(axis, cost, i) ==
    IF i = 0 THEN <<>>
    ELSE LET before == GroupCumsum_no_reset(axis, cost, i - 1)
         IN  Append(before, IF i > 1 THEN before[i - 1] + cost[i] ELSE cost[i])

\* groupby('date')['cost'].cumsum() over the first i rows of the axis: the
\* running sum of cost, which restarts with the first row of every date
RECURSIVE GroupCumsum(_, _, _)
GroupCumsum(axis, cost, i) ==
    IF i = 0 THEN <<>>
    ELSE LET before == GroupCumsum(axis, cost, i - 1)
         IN  Append(before,
                    IF i > 1 /\ DateOf(axis[i - 1]) = DateOf(axis[i])
                    THEN before[i - 1] + cost[i] ELSE cost[i])

process_expense_data(df) ==
    LET start_date == DateOf(SetMin({df[r].date : r \in DOMAIN df}))
        end_date == DateOf(SetMax({df[r].date : r \in DOMAIN df})) + 1
        axis == hourly_time_range(start_date, end_date)
        cost == [i \in DOMAIN axis |-> HourlyCost(df, axis[i])]
        cum_cost == GroupCumsum(axis, cost, Len(axis))
    IN  [i \in DOMAIN axis |->
            [date |-> DateOf(axis[i]),
             hour |-> axis[i] + Hour,
             cost |-> cost[i],
             cum_cost |-> cum_cost[i]]]

----------------------------------------------------------------------------
(* validate_date_range *)

DateRangeError == "ValueError: date range outside the data range"

\* the earlier of the two first dates instead of the later
overall_min_date_earlier(df, idx) ==
    LET new_df_min_date == DateOf(SetMin({df[i].start_time : i \in DOMAIN df}))
        merged_df_new_min_date == DateOf(SetMin({idx[i].hour : i \in DOMAIN idx}))
    IN  IF new_df_min_date <= merged_df_new_min_date
        THEN new_df_min_date ELSE merged_df_new_min_date

overall_min_date(df, idx) ==
    LET new_df_min_date == DateOf(SetMin({df[i].start_time : i \in DOMAIN df}))
        merged_df_new_min_date == DateOf(SetMin({idx[i].hour : i \in DOMAIN idx}))
    IN  IF new_df_min_date >= merged_df_new_min_date
        THEN new_df_min_date ELSE merged_df_new_min_date

overall_max_date(df, idx) ==
    LET new_df_max_date == DateOf(SetMax({df[i].end_time : i \in DOMAIN df}))
        merged_df_new_max_date == DateOf(SetMax({idx[i].hour : i \in DOMAIN idx}))
    IN  IF new_df_max_date <= merged_df_new_max_date
        THEN new_df_max_date ELSE merged_df_new_max_date

\* start_date and end_date are the datetimes parsed from the configured dates
validate_date_range(start_date, end_date, df, idx) ==
    IF DateOf(start_date) < overall_min_date(df, idx)
       \/ DateOf(end_date) > overall_max_date(df, idx) + 1
    THEN Raised(DateRangeError)
    ELSE Returned("True")

----------------------------------------------------------------------------
(* calculate_anchor_expenses *)

RECURSIVE Factorial(_)
Factorial(n) == IF n <= 1 THEN 1 ELSE n * Factorial(n - 1)

\* amounts are counted in units of 1/Scale: every division by a number of
\* presenters up to MaxAnchors is then exact
Scale == Factorial(MaxAnchors)

NaN == [nan |-> TRUE, v |-> 0]
Num(x) == [nan |-> FALSE, v |-> x]

\* the cum_cost column a left merge on hour = t brings in
cumulative_spend_at(idx, t) ==
    LET hit == {i \in DOMAIN idx : idx[i].hour = t}
    IN  IF hit = {} THEN NaN ELSE Num(idx[CHOOSE i \in hit : TRUE].cum_cost)

\* the division by the number of presenters left out
Amount_unsplit(up, down, num_anchors) ==
    IF up.nan \/ down.nan THEN NaN
    ELSE Num((down.v - up.v) * Scale)

\* (cum_cost at end - cum_cost at start) / num_anchors, NaN when one is missing
Amount(up, down, num_anchors) ==
    IF up.nan \/ down.nan THEN NaN
    ELSE Num(((down.v - up.v) * Scale) \div num_anchors)

\* the two left merges and the amount column
MergedAll(filtered, idx) ==
    [i \in DOMAIN filtered |->
        LET e == filtered[i]
            up == cumulative_spend_at(idx, e.start_time)
            down == cumulative_spend_at(idx, e.end_time)
        IN  [date |-> e.date, anchor |-> e.anchor,
             start_time |-> e.start_time, end_time |-> e.end_time,
             num_anchors |-> e.num_anchors,
             cum_up |-> up, cum_down |-> down,
             total |-> Amount(up, down, e.num_anchors)]]

\* groupby('anchor')['total'].sum(): NaN amounts are skipped
AnchorTotal(all, a) ==
    SumOver([i \in DOMAIN all |-> all[i].total.v],
            {i \in DOMAIN all : all[i].anchor = a /\ ~all[i].total.nan})

calculate_anchor_expenses(all, start_date_input, end_date_input) ==
    {[anchor |-> a, total |-> AnchorTotal(all, a),
      since |-> start_date_input, until |-> end_date_input] :
        a \in {all[i].anchor : i \in DOMAIN all}}

\* process_data's filter: the rows of new_df that start at or after
\* start_date and end at or before next_date = end_date + 1 day, in order
filtered_new_df(df, start_date, end_date) ==
    LET next_date == end_date + Day
    IN  SelectSeq(df, LAMBDA e : e.start_time >= start_date /\ e.end_time <= next_date)

----------------------------------------------------------------------------
(* main: process_data, then process_output_file, then to_excel.  Every      *)
(* exception is caught by main, which prints it and ends.                   *)

PermissionError == "PermissionError: cannot delete the existing file"

\* The file at output_file.filename; touched records whether this run has
\* removed or written it.
Absent == [exists |-> FALSE, touched |-> FALSE, rows |-> {}]
Prior == [exists |-> TRUE, touched |-> FALSE, rows |-> {}]
Removed == [exists |-> FALSE, touched |-> TRUE, rows |-> {}]
Written(rows) == [exists |-> TRUE, touched |-> TRUE, rows |-> rows]

NoCall == [time_str |-> "", method |-> "", is_end_time |-> FALSE, exc |-> "", ret |-> ""]

\* datetime.strptime(date_input, '%Y-%m-%d') of a configured day
DateTimeOf(day) == day * Day

\* main clearing the output path before process_data has run
ProcessScheduleData_after_remove ==
    /\ pc = "process_schedule_data"
    /\ output_file' = IF output_file.exists /\ ~locked THEN Removed ELSE output_file
    /\ LET r == process_schedule_data(schedule_file, config.method)
       IN  IF r.exc # ""
           THEN /\ err' = r.exc
                /\ pc' = "done"
                /\ new_df' = new_df
           ELSE /\ new_df' = r.ret
                /\ pc' = "process_expense_data"
                /\ err' = err
    /\ UNCHANGED <<config, schedule_file, expense_file, locked,
                   merged_df_new, merged_all, summary, rnd>>

ProcessScheduleData ==
    /\ pc = "process_schedule_data"
    /\ LET r == process_schedule_data(schedule_file, config.method)
       IN  IF r.exc # ""
           THEN /\ err' = r.exc
                /\ pc' = "done"
                /\ new_df' = new_df
           ELSE /\ new_df' = r.ret
                /\ pc' = "process_expense_data"
                /\ err' = err
    /\ UNCHANGED <<config, schedule_file, expense_file, output_file, locked,
                   merged_df_new, merged_all, summary, rnd>>

ProcessExpenseData ==
    /\ pc = "process_expense_data"
    /\ merged_df_new' = process_expense_data(expense_file)
    /\ pc' = "validate_date_range"
    /\ UNCHANGED <<config, schedule_file, expense_file, output_file, locked,
                   new_df, merged_all, summary, err, rnd>>

ValidateDateRange ==
    /\ pc = "validate_date_range"
    /\ LET r == validate_date_range(DateTimeOf(config.start_date),
                                    DateTimeOf(config.end_date), new_df, merged_df_new)
       IN  IF r.exc # ""
           THEN err' = r.exc /\ pc' = "done"
           ELSE err' = err /\ pc' = "calculate_anchor_expenses"
    /\ UNCHANGED <<config, schedule_file, expense_file, output_file, locked,
                   new_df, merged_df_new, merged_all, summary, rnd>>

CalculateAnchorExpenses ==
    /\ pc = "calculate_anchor_expenses"
    /\ merged_all' = MergedAll(filtered_new_df(new_df, DateTimeOf(config.start_date),
                                               DateTimeOf(config.end_date)),
                               merged_df_new)
    /\ summary' = calculate_anchor_expenses(merged_all', config.start_date, config.end_date)
    /\ pc' = "process_output_file"
    /\ UNCHANGED <<config, schedule_file, expense_file, output_file, locked,
                   new_df, merged_df_new, err, rnd>>

ProcessOutputFile ==
    /\ pc = "process_output_file"
    /\ IF ~output_file.exists
       THEN err' = err /\ pc' = "to_excel" /\ output_file' = output_file
       ELSE IF locked
       THEN err' = PermissionError /\ pc' = "done" /\ output_file' = output_file
       ELSE err' = err /\ pc' = "to_excel" /\ output_file' = Removed
    /\ UNCHANGED <<config, schedule_file, expense_file, locked,
                   new_df, merged_df_new, merged_all, summary, rnd>>

ToExcel ==
    /\ pc = "to_excel"
    /\ output_file' = Written(summary)
    /\ pc' = "done"
    /\ UNCHANGED <<config, schedule_file, expense_file, locked,
                   new_df, merged_df_new, merged_all, summary, err, rnd>>

Next ==
    \/ ProcessScheduleData
    \/ ProcessExpenseData
    \/ ValidateDateRange
    \/ CalculateAnchorExpenses
    \/ ProcessOutputFile
    \/ ToExcel

----------------------------------------------------------------------------
(* Inputs. *)

Tok(anchor, start, end) == [anchor |-> anchor, time |-> <<start, end>>]
StrCell(matches) == [is_str |-> TRUE, matches |-> matches]
NonStrCell == [is_str |-> FALSE, matches |-> <<>>]
Row(date, cells) == [Date |-> date, cells |-> cells]

Days == 0..MaxDay
Amounts == 0..MaxAmount

\* the state in which main starts on the given inputs
MainStarts(cfg, sched, expense, out, lock) ==
    /\ pc = "process_schedule_data"
    /\ config = cfg
    /\ schedule_file = sched
    /\ expense_file = expense
    /\ output_file = out
    /\ locked = lock
    /\ new_df = <<>>
    /\ merged_df_new = <<>>
    /\ merged_all = <<>>
    /\ summary = {}
    /\ err = ""
    /\ rnd = NoCall

\* a call of round_to_nearest_hour on its own
RoundToNearestHour ==
    /\ pc = "round_to_nearest_hour"
    /\ LET r == round_to_nearest_hour(rnd.time_str, rnd.method, rnd.is_end_time)
       IN  rnd' = [rnd EXCEPT !.exc = r.exc, !.ret = r.ret]
    /\ pc' = "done"
    /\ UNCHANGED <<config, schedule_file, expense_file, output_file, locked,
                   new_df, merged_df_new, merged_all, summary, err>>

NextRound == RoundToNearestHour

\* the configured method may be any text: "method5" stands for the unknown ones
MethodNames == RuleNames \cup {"method5"}

NoConfig == [method |-> "", start_date |-> 0, end_date |-> 0]

InitRound ==
    /\ pc = "round_to_nearest_hour"
    /\ rnd \in {[time_str |-> s, method |-> m, is_end_time |-> b, exc |-> "", ret |-> ""] :
                  s \in (DOMAIN strptime_table) \cup {"24:00"},
                  m \in MethodNames, b \in BOOLEAN}
    /\ config = NoConfig
    /\ schedule_file = <<>>
    /\ expense_file = <<>>
    /\ output_file = Absent
    /\ locked = FALSE
    /\ new_df = <<>>
    /\ merged_df_new = <<>>
    /\ merged_all = <<>>
    /\ summary = {}
    /\ err = ""

SpecRound == InitRound /\ [][NextRound]_vars

----------------------------------------------------------------------------
(* Claims about round_to_nearest_hour, under SpecRound. *)

\* the two-digit spellings HH:MM with the hour and the minute they denote
HHMM == {<<Pad2(h) \o ":" \o Pad2(m), h, m>> : h \in 0..23, m \in 0..(Hour - 1)}

OnTheHour(h) == Pad2(h % 24) \o ":00"

RoundCallDone == pc = "done" /\ rnd.time_str # ""

\* C1 (as stated): under method1 a start time is rounded down to its hour
\* and an end time with a nonzero minute is rounded up to the next hour, for
\* every HH:MM other than 23:59; a time with minute 0 is returned unchanged.
C1_StartDownEndUp ==
    RoundCallDone /\ rnd.method = "method1" /\ rnd.time_str # "23:59" =>
        \A x \in HHMM : x[1] = rnd.time_str =>
            /\ rnd.exc = ""
            /\ ~rnd.is_end_time => rnd.ret = OnTheHour(x[2])
            /\ rnd.is_end_time /\ x[3] > 0 => rnd.ret = OnTheHour(x[2] + 1)
            /\ x[3] = 0 => rnd.ret = rnd.time_str

\* C1 (amended): under method1 a start time with a nonzero minute is rounded
\* up to the next hour (00:00 after hour 23) and an end time is rounded down
\* to its hour, for every HH:MM other than 23:59; a time with minute 0 is
\* returned unchanged in both roles.
C1_StartUpEndDown ==
    RoundCallDone /\ rnd.method = "method1" /\ rnd.time_str # "23:59" =>
        \A x \in HHMM : x[1] = rnd.time_str =>
            /\ rnd.exc = ""
            /\ ~rnd.is_end_time /\ x[3] > 0 => rnd.ret = OnTheHour(x[2] + 1)
            /\ rnd.is_end_time => rnd.ret = OnTheHour(x[2])
            /\ x[3] = 0 => rnd.ret = rnd.time_str

\* "20:15" as a start under method1 has been rounded, to "21:00"
C1_Witness ==
    /\ RoundCallDone
    /\ rnd.time_str = "20:15" /\ rnd.method = "method1" /\ ~rnd.is_end_time
    /\ rnd.ret = "21:00"

\* C8 (as stated): for every policy name outside method1..method4 the call
\* fails with the unsupported-method error, whatever the time string and the
\* role are, and returns no time.
C8_UnknownPolicyFails ==
    RoundCallDone /\ rnd.method \notin {"method1", "method2", "method3", "method4"} =>
        rnd.exc = UnsupportedMethod /\ rnd.ret = ""

----------------------------------------------------------------------------
(* SpecSchedule: main on one schedule row whose last token ranges over the  *)
(* time strings, the presenter lists and the methods; the spend is fixed.   *)

ScheduleTimes ==
    {"00:00", "01:00", "9:30", "20:15", "20:45", "22:00", "23:59", "24:00"}

Names == {"A ", " B"}

AnchorLists == UNION {[1..n -> Names] : n \in 1..MaxAnchors}

At(day, h, m) == day * Day + h * Hour + m

\* spend rows at four hours of every day
SteadyExpense ==
    Concat([d \in 1..(MaxDay + 1) |->
        <<[date |-> At(d - 1, 0, 10), amount |-> 1],
          [date |-> At(d - 1, 9, 0), amount |-> MaxAmount],
          [date |-> At(d - 1, 21, 30), amount |-> 1],
          [date |-> At(d - 1, 23, 59), amount |-> MaxAmount]>>])

InitSchedule ==
    \E m \in RuleNames, d \in Days, a \in AnchorLists,
       s \in ScheduleTimes, e \in ScheduleTimes, two \in BOOLEAN :
        MainStarts([method |-> m, start_date |-> d, end_date |-> d + 1],
                   <<Row(d, <<NonStrCell,
                              StrCell(IF two
                                      THEN <<Tok(<<"C">>, "09:00", "12:00"), Tok(a, s, e)>>
                                      ELSE <<Tok(a, s, e)>>)>>)>>,
                   SteadyExpense, Absent, FALSE)

SpecSchedule == InitSchedule /\ [][Next]_vars

\* new_df holds the result of process_schedule_data
ScheduleParsed ==
    /\ pc \notin {"process_schedule_data", "round_to_nearest_hour"}
    /\ err \notin {UnsupportedMethod, TimeFormatError}

\* merged_all holds the per-interval table
Attributed ==
    \/ pc \in {"process_output_file", "to_excel"}
    \/ pc = "done" /\ err \in {"", PermissionError}

\* C5 (as stated): every entry process_schedule_data produces has
\* end_time > start_time, also when the rounded start and end coincide.
C5_EndAfterStart ==
    ScheduleParsed =>
        \A i \in DOMAIN new_df : new_df[i].end_time > new_df[i].start_time

\* number of entries the tokens before token k produce
TokOffset(toks, k) ==
    SumOver([j \in DOMAIN toks |-> Len(toks[j].anchor)], 1..(k - 1))

\* the filter of process_data, on one entry
InRange(e) ==
    /\ e.start_time >= config.start_date * Day
    /\ e.end_time <= (config.end_date + 1) * Day

\* C7: when n >= 2 presenters share one token, each of the n entries carries
\* num_anchors = n and the same start_time and end_time; their per-interval
\* amounts are all equal and add up to the unsplit amount
\* cum_cost(end_time) - cum_cost(start_time) (all are missing when a lookup is).
C7_EqualSplit ==
    ScheduleParsed =>
        LET toks == SheetTokens(schedule_file)
        IN  \A k \in DOMAIN toks :
            LET n == Len(toks[k].anchor)
                off == TokOffset(toks, k)
                first == new_df[off + 1]
                moff == Cardinality({i \in 1..off : InRange(new_df[i])})
                share == merged_all[moff + 1].total
            IN  n >= 2 =>
                /\ \A i \in (off + 1)..(off + n) :
                    /\ new_df[i].num_anchors = n
                    /\ new_df[i].start_time = first.start_time
                    /\ new_df[i].end_time = first.end_time
                /\ Attributed /\ InRange(first) =>
                    /\ \A i \in (moff + 1)..(moff + n) : merged_all[i].total = share
                    /\ \A x, y \in DOMAIN merged_df_new :
                        /\ merged_df_new[x].hour = first.start_time
                        /\ merged_df_new[y].hour = first.end_time
                        => /\ ~share.nan
                           /\ SumOver([i \in DOMAIN merged_all |-> merged_all[i].total.v],
                                      (moff + 1)..(moff + n))
                              = (merged_df_new[y].cum_cost - merged_df_new[x].cum_cost) * Scale

\* two presenters have shared an interval with a positive amount
C7_Witness ==
    /\ pc = "done" /\ err = ""
    /\ \E i, j \in DOMAIN merged_all :
        /\ i # j
        /\ merged_all[i].num_anchors = 2 /\ merged_all[j].num_anchors = 2
        /\ merged_all[i].start_time = merged_all[j].start_time
        /\ merged_all[i].anchor # merged_all[j].anchor
        /\ ~merged_all[i].total.nan /\ merged_all[i].total.v > 0

----------------------------------------------------------------------------
(* SpecExpense: main on two spend rows ranging over days, hours, minutes    *)
(* and amounts, and one presenter working alone on one interval.            *)

ExpenseRows ==
    {[date |-> At(d, h, m), amount |-> a] :
        d \in Days, h \in {0, 9, 23}, m \in {0, 30}, a \in 1..MaxAmount}

AloneIntervals == {<<"00:00", "09:00">>, <<"09:00", "12:00">>, <<"22:00", "01:00">>}

InitExpense ==
    \E x \in [1..2 -> ExpenseRows], d \in Days, t \in AloneIntervals :
        MainStarts([method |-> "method1", start_date |-> d, end_date |-> d + 1],
                   <<Row(d, <<StrCell(<<Tok(<<"A">>, t[1], t[2])>>)>>)>>,
                   x, Absent, FALSE)

SpecExpense == InitExpense /\ [][Next]_vars

\* the spend of the raw rows whose timestamp t satisfies from <= t < to
RawSpend(from, to) ==
    SumOver([r \in DOMAIN expense_file |-> expense_file[r].amount],
            {r \in DOMAIN expense_file :
                expense_file[r].date >= from /\ expense_file[r].date < to})

SpendDays == {DateOf(expense_file[r].date) : r \in DOMAIN expense_file}

\* C2 (as stated): for a presenter alone on an interval inside one day of
\* the spend data, the amount equals the sum of the hourly spend of every
\* hour bucket h with start <= h < end, for every start hour including 00:00
\* and every day including the first.
C2_Conservation ==
    Attributed =>
        \A i \in DOMAIN merged_all :
            LET r == merged_all[i]
                d == DateOf(r.start_time)
            IN  /\ r.num_anchors = 1
                /\ r.start_time < r.end_time
                /\ r.end_time <= (d + 1) * Day
                /\ \E lo, hi \in SpendDays : lo <= d /\ d <= hi
                => r.total = Num(RawSpend(r.start_time, r.end_time) * Scale)

\* C6: with non-negative spend, within every date of the index cum_cost is
\* non-decreasing in hour order, and the cum_cost of a date's hour-0 bucket
\* is that bucket's own spend, whatever was spent on earlier days.
C6_MonotoneAndReset ==
    \A i \in DOMAIN merged_df_new :
        LET r == merged_df_new[i]
        IN  /\ \A j \in DOMAIN merged_df_new :
                i < j /\ merged_df_new[j].date = r.date
                => r.cum_cost <= merged_df_new[j].cum_cost
            /\ r.hour - Hour = r.date * Day
                => /\ r.cum_cost = r.cost
                   /\ r.cum_cost = RawSpend(r.date * Day, r.date * Day + Hour)

\* the index holds a second day whose hour-0 bucket has spend, after a day
\* with spend
C6_Witness ==
    \E i, j \in DOMAIN merged_df_new :
        /\ merged_df_new[j].date < merged_df_new[i].date
        /\ merged_df_new[j].cost > 0
        /\ merged_df_new[i].hour - Hour = merged_df_new[i].date * Day
        /\ merged_df_new[i].cost > 0
        /\ merged_df_new[i].cum_cost = merged_df_new[i].cost

\* C10 (as stated): with non-negative spend, every interval whose two
\* boundaries are in the index gets a non-negative amount, cross-midnight
\* intervals included, and so does every presenter's total.
C10_NonNegative ==
    Attributed =>
        /\ \A i \in DOMAIN merged_all :
            ~merged_all[i].total.nan => merged_all[i].total.v >= 0
        /\ \A row \in summary : row.total >= 0

----------------------------------------------------------------------------
(* Spec: main on schedules and spend whose dates range independently, any   *)
(* query range, a known or unknown method, and any state of the output.     *)

ScheduleDays == 0..(MaxDay + 1)

Schedules ==
    {<<Row(d, <<StrCell(<<Tok(<<"A">>, t[1], t[2])>>)>>)>> :
        d \in ScheduleDays, t \in {<<"00:00", "09:00">>, <<"22:00", "01:00">>}}
    \cup {<<Row(d1, <<StrCell(<<Tok(<<"A">>, "09:00", "12:00")>>)>>),
            Row(d2, <<StrCell(<<Tok(<<"B">>, "20:00", "24:00")>>)>>)>> :
        d1 \in ScheduleDays, d2 \in ScheduleDays}

Expenses ==
    UNION {[1..n -> {[date |-> At(d, 9, 30), amount |-> MaxAmount] : d \in Days}] :
             n \in 1..2}

Init ==
    \E m \in {"method1", "method5"}, sched \in Schedules, x \in Expenses,
       from \in 0..(MaxDay + 1), to \in 0..(MaxDay + 2),
       out \in {Absent, Prior}, lock \in BOOLEAN :
        MainStarts([method |-> m, start_date |-> from, end_date |-> to],
                   sched, x, out, lock)

Spec == Init /\ [][Next]_vars

\* validate_date_range has returned or raised
Validated ==
    /\ ScheduleParsed
    /\ pc \notin {"process_expense_data", "validate_date_range"}

\* C3 (as stated): whenever validate_date_range accepts the query, every
\* interval that survives the filter has an index entry at its start_time
\* and one at its end_time, so no filtered interval gets a missing amount.
C3_BoundariesIndexed ==
    Attributed =>
        \A i \in DOMAIN merged_all :
            /\ \E x \in DOMAIN merged_df_new :
                merged_df_new[x].hour = merged_all[i].start_time
            /\ \E y \in DOMAIN merged_df_new :
                merged_df_new[y].hour = merged_all[i].end_time
            /\ ~merged_all[i].total.nan

\* C4: validate_date_range raises the date-range error exactly when
\* range_start is before the later of the earliest schedule start date and
\* the earliest index hour date, or range_end is after one day past the
\* earlier of the latest schedule end date and the latest index hour date.
C4_RangeCheck ==
    Validated =>
        (err = DateRangeError <=>
            \/ \A i \in DOMAIN new_df : config.start_date < DateOf(new_df[i].start_time)
            \/ \A x \in DOMAIN merged_df_new :
                config.start_date < DateOf(merged_df_new[x].hour)
            \/ \A i \in DOMAIN new_df : config.end_date > DateOf(new_df[i].end_time) + 1
            \/ \A x \in DOMAIN merged_df_new :
                config.end_date > DateOf(merged_df_new[x].hour) + 1)

\* a query from day 0 has been rejected although the schedule starts on day
\* 0, because the spend starts on day 1 (its end is within both coverages)
C4_Witness ==
    /\ pc = "done" /\ err = DateRangeError
    /\ config.start_date = 0
    /\ \E i \in DOMAIN new_df : DateOf(new_df[i].start_time) = 0
    /\ \A x \in DOMAIN merged_df_new : DateOf(merged_df_new[x].hour) >= 1
    /\ \E i \in DOMAIN new_df : config.end_date <= DateOf(new_df[i].end_time) + 1
    /\ \E x \in DOMAIN merged_df_new :
        config.end_date <= DateOf(merged_df_new[x].hour) + 1

\* C9: the output file is removed or written only after process_data has
\* returned; when it fails with the date-range error or the unsupported-
\* method error the file is as it was before the run.
C9_FailFast ==
    /\ output_file.touched => Attributed /\ err = "" /\ pc \in {"to_excel", "done"}
    /\ err \in {DateRangeError, UnsupportedMethod} => pc = "done" /\ output_file \in {Absent, Prior}

\* a run has ended with the date-range error and the earlier output file is
\* still there
C9_Witness ==
    /\ pc = "done" /\ err = DateRangeError
    /\ output_file = Prior
    /\ ~locked

====
